---- MODULE Spec2Model ----
(***************************************************************************)
(* A model of the LC-3 virtual machine of src/src/lib.rs: the register     *)
(* file, the 64K-word memory, the loader (VM::load), the fetch / decode /  *)
(* execute loop (VM::run), the instruction decoder (From<u16> for          *)
(* Box<dyn Instruction>) and the execute method of every instruction and   *)
(* trap.  All values are u16 (0..65535) or u8 (0..255); `wrapping_add`     *)
(* wraps, the plain `+` of the source panics on overflow in a build with   *)
(* overflow checks and wraps in a build without them.                      *)
(*                                                                         *)
(* src/src/instructions.rs holds a later revision of the instruction set   *)
(* (sign-extended offsets, traps that save R7, no inc_rpc in execute); it  *)
(* needs VM::get_rpc, VM::set_nzp, Reg::RPC and Reg::RCond, none of which  *)
(* lib.rs defines, and lib.rs does not declare it as a module: the program *)
(* that VM::run of lib.rs executes is the one modelled here.               *)
(***************************************************************************)
EXTENDS Integers, Sequences, FiniteSets, TLC

VARIABLES
    memory,           \* Memory.mem: the cells that differ from the all-zero array
    registers,        \* VM.registers: HashMap<Reg, u16>
    halt,             \* VM.halt
    reader,           \* VM.reader: the bytes not yet read
    writer,           \* VM.writer: the bytes written so far
    program,          \* the image file handed to VM::load (bytes)
    phase,            \* position of the host program: new, run, exec, done, panic, hang
    current_addr,     \* VM::run: let current_addr
    instruction,      \* VM::run: let instruction
    i_count,          \* VM::run: let mut i_count
    overflow_checks,  \* the build: TRUE when arithmetic overflow panics (debug)
    call,             \* a call of an associated function made on its own: the
                      \* arguments, and the value returned once it is done
    flushed           \* how many of the bytes of `writer` have left the buffer of
                      \* the Stdout that VM::default() installs

vars == <<memory, registers, halt, reader, writer, program, phase,
          current_addr, instruction, i_count, overflow_checks, call, flushed>>

-----------------------------------------------------------------------------
(* u16 arithmetic and bit operations *)

U16 == 65536

PC_START == 12288

RECURSIVE BitAnd(_, _)
BitAnd(a, b) ==
    IF a = 0 \/ b = 0 THEN 0
    ELSE (a % 2) * (b % 2) + 2 * BitAnd(a \div 2, b \div 2)

RECURSIVE BitOr(_, _)
BitOr(a, b) ==
    IF a = 0 THEN b
    ELSE IF b = 0 THEN a
    ELSE (IF a % 2 = 1 \/ b % 2 = 1 THEN 1 ELSE 0) + 2 * BitOr(a \div 2, b \div 2)

RECURSIVE Pow2(_)
Pow2(n) == IF n = 0 THEN 1 ELSE 2 * Pow2(n - 1)

Shr(x, n) == x \div Pow2(n)

Shl(x, n) == (x * Pow2(n)) % U16

BitNot(x) == (U16 - 1) - x

wrapping_add(a, b) == (a + b) % U16

AsU8(x) == x % 256

-----------------------------------------------------------------------------
(* Reg: register identifiers and field extraction *)

Reg == {"R0", "R1", "R2", "R3", "R4", "R5", "R6", "R7", "Rpc", "Rcnd"}

GeneralReg == {"R0", "R1", "R2", "R3", "R4", "R5", "R6", "R7"}

\* From<u16> for Reg; a number outside 0..7 panics.
RegFromU16(value) ==
    IF value \in 0..7 THEN <<"R0", "R1", "R2", "R3", "R4", "R5", "R6", "R7">>[value + 1]
    ELSE "panic"

Reg_dr(w) == RegFromU16(BitAnd(Shr(w, 9), 7))

Reg_sr1(w) == RegFromU16(BitAnd(Shr(w, 6), 7))

Reg_sr2(w) == RegFromU16(BitAnd(w, 7))

Reg_imm(w) == BitAnd(w, 31)

\* Faulty variant: the bit tested is bit b, one above the sign bit of the field.
Reg_sext_BitAbove(n, b) ==
    IF BitAnd(Shr(n, b), 1) = 1 THEN BitOr(n, Shl(U16 - 1, b)) ELSE n

Reg_sext(n, b) ==
    IF BitAnd(Shr(n, b - 1), 1) = 1 THEN BitOr(n, Shl(U16 - 1, b)) ELSE n

Reg_poff9(n) == BitAnd(n, 511)

Reg_poff11(n) == BitAnd(n, 2047)

Reg_poff(n) == BitAnd(n, 63)

\* Faulty variant: the immediate is zero-extended.
Reg_sextimm_ZeroExtended(n) == Reg_imm(n)

Reg_sextimm(n) == Reg_sext(Reg_imm(n), 5)

Reg_get_nth_bit(value, n) == BitAnd(Shr(value, n), 1) = 1

Reg_fimm(w) == Reg_get_nth_bit(w, 5)

Reg_fncd(w) == BitAnd(Shr(w, 9), 7)

-----------------------------------------------------------------------------
(* Memory *)

Memory_default == <<>>

Memory_read(mem, address) ==
    IF address \in DOMAIN mem THEN mem[address] ELSE 0

\* Faulty variant: the value is or-ed into the cell.
Memory_write_OrInto(mem, address, val) ==
    [a \in (DOMAIN mem) \cup {address} |->
        IF a = address THEN BitOr(Memory_read(mem, address), val) ELSE mem[a]]

Memory_write(mem, address, val) ==
    [a \in (DOMAIN mem) \cup {address} |-> IF a = address THEN val ELSE mem[a]]

-----------------------------------------------------------------------------
(* The VM as a value: what an execute method reads and writes.  `panicked`  *)
(* records a panic (the run is aborted), `hung` a loop that never ends.     *)

VMDefaultRegisters ==
    [r \in Reg |-> IF r = "Rpc" THEN PC_START ELSE 0]

Panic(vm) == [vm EXCEPT !.panicked = TRUE]

insert(vm, r, v) == [vm EXCEPT !.registers[r] = v]

\* `a + b` on u16: panics when overflow checks are on and the sum overflows.
AddOverflows(a, b) == overflow_checks /\ a + b >= U16

\* Faulty variant: the program counter skips one cell.
inc_rpc_SkipsOne(vm) ==
    IF AddOverflows(vm.registers["Rpc"], 1) THEN Panic(vm)
    ELSE insert(vm, "Rpc", (vm.registers["Rpc"] + 2) % U16)

inc_rpc(vm) ==
    IF AddOverflows(vm.registers["Rpc"], 1) THEN Panic(vm)
    ELSE insert(vm, "Rpc", (vm.registers["Rpc"] + 1) % U16)

\* Faulty variant: the NEGATIVE and POSITIVE flags are swapped.
uf_SignSwapped(vm, r) ==
    IF vm.registers[r] = 0 THEN insert(vm, "Rcnd", 2)
    ELSE IF Shr(vm.registers[r], 15) = 1 THEN insert(vm, "Rcnd", 1)
    ELSE insert(vm, "Rcnd", 4)

uf(vm, r) ==
    IF vm.registers[r] = 0 THEN insert(vm, "Rcnd", 2)
    ELSE IF Shr(vm.registers[r], 15) = 1 THEN insert(vm, "Rcnd", 4)
    ELSE insert(vm, "Rcnd", 1)

-----------------------------------------------------------------------------
(* Instruction::execute, one operator per instruction of lib.rs.  Each maps *)
(* the VM before the call to the VM after it.                               *)

AddConst_execute(vm, op) ==
    LET result == wrapping_add(vm.registers[op.sr], op.value)
    IN  inc_rpc(uf(insert(vm, op.dr, result), op.dr))

\* Faulty variant: the first source register is read for both operands.
AddReg_execute_SameSource(vm, op) ==
    LET result == wrapping_add(vm.registers[op.sr1], vm.registers[op.sr1])
    IN  inc_rpc(uf(insert(vm, op.dr, result), op.dr))

AddReg_execute(vm, op) ==
    LET result == wrapping_add(vm.registers[op.sr1], vm.registers[op.sr2])
    IN  inc_rpc(uf(insert(vm, op.dr, result), op.dr))

\* Faulty variant: only the low 5 bits of the immediate are used.
AndConst_execute_LowBits(vm, op) ==
    LET result == BitAnd(vm.registers[op.sr], BitAnd(op.value, 31))
    IN  inc_rpc(uf(insert(vm, op.dr, result), op.dr))

AndConst_execute(vm, op) ==
    LET result == BitAnd(vm.registers[op.sr], op.value)
    IN  inc_rpc(uf(insert(vm, op.dr, result), op.dr))

AndReg_execute(vm, op) ==
    LET result == BitAnd(vm.registers[op.sr1], vm.registers[op.sr2])
    IN  inc_rpc(uf(insert(vm, op.dr, result), op.dr))

Ld_execute(vm, op) ==
    IF AddOverflows(vm.registers["Rpc"], op.offset) THEN Panic(vm)
    ELSE LET address == (vm.registers["Rpc"] + op.offset) % U16
             result  == Memory_read(vm.memory, address)
         IN  inc_rpc(uf(insert(vm, op.dr, result), op.dr))

Ldi_execute(vm, op) ==
    IF AddOverflows(vm.registers["Rpc"], op.offset) THEN Panic(vm)
    ELSE LET address1 == (vm.registers["Rpc"] + op.offset) % U16
             address2 == Memory_read(vm.memory, address1)
             result   == Memory_read(vm.memory, address2)
         IN  inc_rpc(uf(insert(vm, op.dr, result), op.dr))

Ldr_execute(vm, op) ==
    IF AddOverflows(vm.registers[op.base], op.offset) THEN Panic(vm)
    ELSE LET address == (vm.registers[op.base] + op.offset) % U16
             result  == Memory_read(vm.memory, address)
         IN  inc_rpc(uf(insert(vm, op.dr, result), op.dr))

Lea_execute(vm, op) ==
    IF AddOverflows(vm.registers["Rpc"], op.offset) THEN Panic(vm)
    ELSE LET address == (vm.registers["Rpc"] + op.offset) % U16
         IN  inc_rpc(uf(insert(vm, op.dr, address), op.dr))

St_execute(vm, op) ==
    IF AddOverflows(vm.registers["Rpc"], op.offset) THEN Panic(vm)
    ELSE LET address == (vm.registers["Rpc"] + op.offset) % U16
             value   == vm.registers[op.sr]
         IN  inc_rpc([vm EXCEPT !.memory = Memory_write(vm.memory, address, value)])

\* Faulty variant: the store also updates the flags from the stored register.
Sti_execute_UpdatesFlags(vm, op) ==
    IF AddOverflows(vm.registers["Rpc"], op.offset) THEN Panic(vm)
    ELSE LET address1 == (vm.registers["Rpc"] + op.offset) % U16
             address2 == Memory_read(vm.memory, address1)
             value    == vm.registers[op.sr]
         IN  inc_rpc(uf([vm EXCEPT !.memory = Memory_write(vm.memory, address2, value)],
                        op.sr))

Sti_execute(vm, op) ==
    IF AddOverflows(vm.registers["Rpc"], op.offset) THEN Panic(vm)
    ELSE LET address1 == (vm.registers["Rpc"] + op.offset) % U16
             address2 == Memory_read(vm.memory, address1)
             value    == vm.registers[op.sr]
         IN  inc_rpc([vm EXCEPT !.memory = Memory_write(vm.memory, address2, value)])

Str_execute(vm, op) ==
    IF AddOverflows(vm.registers[op.base], op.offset) THEN Panic(vm)
    ELSE LET address == (vm.registers[op.base] + op.offset) % U16
             value   == vm.registers[op.sr]
         IN  inc_rpc([vm EXCEPT !.memory = Memory_write(vm.memory, address, value)])

Not_execute(vm, op) ==
    LET result == BitNot(vm.registers[op.sr])
    IN  inc_rpc(uf(insert(vm, op.dr, result), op.dr))

Jmp_execute(vm, op) ==
    LET new_rpc == vm.registers[op.base]
    IN  insert(vm, "Rpc", new_rpc)

Jsrr_execute(vm, op) ==
    LET rpc     == vm.registers["Rpc"]
        vm1     == insert(vm, "R7", rpc)
        new_rpc == vm1.registers[op.base]
    IN  insert(vm1, "Rpc", new_rpc)

Jsr_execute(vm, op) ==
    LET rpc == vm.registers["Rpc"]
        vm1 == insert(vm, "R7", rpc)
    IN  IF AddOverflows(vm1.registers["Rpc"], op.offset) THEN Panic(vm1)
        ELSE insert(vm1, "Rpc", (vm1.registers["Rpc"] + op.offset) % U16)

\* Faulty variant: the mask is compared with COND for equality.
Br_taken_MaskEquals(vm, op) == op.nzp = vm.registers["Rcnd"]

Br_taken(vm, op) == BitAnd(op.nzp, vm.registers["Rcnd"]) > 0

Br_execute(vm, op) ==
    IF Br_taken(vm, op)
    THEN LET rpc == vm.registers["Rpc"]
         IN  insert(vm, "Rpc", wrapping_add(rpc, op.offset))
    ELSE inc_rpc(vm)

-----------------------------------------------------------------------------
(* Traps *)

\* Read::read(&mut buf) with a one-byte buffer holding `old`: the byte read and
\* the stream left; at end of stream nothing is read and the buffer keeps `old`.
reader_read(rd, old) ==
    IF rd = <<>> THEN [byte |-> old, rest |-> rd]
    ELSE [byte |-> Head(rd), rest |-> Tail(rd)]

NEWLINE == 10

\* vm.writer.write_all(bytes).  The writer is io::stdout(), which is line
\* buffered: the bytes up to the last newline written leave its buffer, the
\* bytes after it stay there until a later newline or a call of flush().
\* No method of VM or of the instructions calls flush().
writer_write_all(vm, bytes) ==
    LET newlines == {k \in 1..Len(bytes) : bytes[k] = NEWLINE}
        last     == CHOOSE k \in newlines : \A j \in newlines : j <= k
    IN  [vm EXCEPT !.writer = vm.writer \o bytes,
                   !.flushed = IF newlines = {} THEN vm.flushed
                               ELSE Len(vm.writer) + last]

\* Faulty variant: GETC echoes the byte, as IN does.
TrapGetC_execute_Echoes(vm) ==
    LET got == reader_read(vm.reader, 0)
        vm1 == insert([vm EXCEPT !.reader = got.rest], "R0", got.byte)
    IN  inc_rpc(writer_write_all(vm1, <<got.byte>>))

TrapGetC_execute(vm) ==
    LET got == reader_read(vm.reader, 0)
        c   == got.byte
        vm1 == [vm EXCEPT !.reader = got.rest]
    IN  inc_rpc(insert(vm1, "R0", c))

\* Faulty variant: a value above 0xFF is written as two bytes.
TrapOutC_execute_WideChar(vm) ==
    LET c == vm.registers["R0"]
    IN  inc_rpc(writer_write_all(vm,
            IF c > 255 THEN <<AsU8(Shr(c, 8)), AsU8(c)>> ELSE <<AsU8(c)>>))

TrapOutC_execute(vm) ==
    LET c == vm.registers["R0"]
    IN  inc_rpc(writer_write_all(vm, <<AsU8(c)>>))

\* Faulty variant: the loop ends at the first cell whose low byte is zero.
RECURSIVE TrapPuts_loop_LowByteEnds(_, _, _, _)
TrapPuts_loop_LowByteEnds(vm, address, i, c) ==
    IF AsU8(c) = 0 THEN vm
    ELSE LET vm1 == writer_write_all(vm, <<AsU8(c)>>)
         IN  IF AddOverflows(i, 1) \/ AddOverflows(address, (i + 1) % U16)
             THEN Panic(vm1)
             ELSE LET i1 == (i + 1) % U16
                  IN  TrapPuts_loop_LowByteEnds(vm1, address, i1,
                                    Memory_read(vm1.memory, (address + i1) % U16))

\* The `while c != 0` loop of TrapPuts: `c` is the cell read last, `i` the index.
RECURSIVE TrapPuts_loop(_, _, _, _)
TrapPuts_loop(vm, address, i, c) ==
    IF c = 0 THEN vm
    ELSE LET vm1 == writer_write_all(vm, <<AsU8(c)>>)
         IN  IF AddOverflows(i, 1) \/ AddOverflows(address, (i + 1) % U16)
             THEN Panic(vm1)
             ELSE LET i1 == (i + 1) % U16
                  IN  TrapPuts_loop(vm1, address, i1,
                                    Memory_read(vm1.memory, (address + i1) % U16))

TrapPuts_execute(vm) ==
    LET address == vm.registers["R0"]
        done    == TrapPuts_loop(vm, address, 0, Memory_read(vm.memory, address))
    IN  IF done.panicked THEN done ELSE inc_rpc(done)

\* Faulty variant: the low byte is written before the high byte.
RECURSIVE TrapPutsp_loop_LowByteFirst(_, _, _, _)
TrapPutsp_loop_LowByteFirst(vm, address, i, c) ==
    IF c = 0 THEN vm
    ELSE LET num1 == AsU8(Shr(c, 8))
             num2 == AsU8(BitAnd(255, c))
             vm1  == writer_write_all(vm, <<num2, num1>>)
         IN  IF AddOverflows(i, 1) \/ AddOverflows(address, (i + 1) % U16)
             THEN Panic(vm1)
             ELSE LET i1 == (i + 1) % U16
                  IN  TrapPutsp_loop_LowByteFirst(vm1, address, i1,
                                     Memory_read(vm1.memory, (address + i1) % U16))

\* The `while c != 0` loop of TrapPutsp.
RECURSIVE TrapPutsp_loop(_, _, _, _)
TrapPutsp_loop(vm, address, i, c) ==
    IF c = 0 THEN vm
    ELSE LET num1 == AsU8(Shr(c, 8))
             num2 == AsU8(BitAnd(255, c))
             vm1  == writer_write_all(vm, <<num1, num2>>)
         IN  IF AddOverflows(i, 1) \/ AddOverflows(address, (i + 1) % U16)
             THEN Panic(vm1)
             ELSE LET i1 == (i + 1) % U16
                  IN  TrapPutsp_loop(vm1, address, i1,
                                     Memory_read(vm1.memory, (address + i1) % U16))

TrapPutsp_execute(vm) ==
    LET address == vm.registers["R0"]
        done    == TrapPutsp_loop(vm, address, 0, Memory_read(vm.memory, address))
    IN  IF done.panicked THEN done ELSE inc_rpc(done)

TrapIn_execute(vm) ==
    LET got == reader_read(vm.reader, 0)
        c   == got.byte
        vm1 == insert([vm EXCEPT !.reader = got.rest], "R0", c)
    IN  inc_rpc(writer_write_all(vm1, <<got.byte>>))

TrapHalt_execute(vm) == [vm EXCEPT !.halt = TRUE]

\* Faulty variant: letters pass as digits (is_ascii_alphanumeric).
is_ascii_digit_Alphanumeric(b) ==
    (b >= 48 /\ b <= 57) \/ (b >= 65 /\ b <= 90) \/ (b >= 97 /\ b <= 122)

is_ascii_digit(b) == b >= 48 /\ b <= 57

\* The read loop of TrapInu16: the digits pushed and the stream left when the
\* newline is read; the loop never ends when no newline is left to read.
RECURSIVE InU16Loop(_, _)
InU16Loop(rd, all_characters) ==
    LET character == Head(rd)
        pushed    == IF is_ascii_digit(character)
                     THEN Append(all_characters, character) ELSE all_characters
    IN  IF character = NEWLINE THEN [rest |-> Tail(rd), digits |-> pushed]
        ELSE InU16Loop(Tail(rd), pushed)

\* u16::from_str_radix(s, 10): the value, or -1 for Err (empty, or above u16::MAX).
RECURSIVE ParseDigits(_, _)
ParseDigits(digits, acc) ==
    IF digits = <<>> THEN acc
    ELSE LET next == acc * 10 + (Head(digits) - 48)
         IN  IF next >= U16 THEN -1 ELSE ParseDigits(Tail(digits), next)

\* Faulty variant: the value wraps modulo 2^16 instead of being an Err.
RECURSIVE ParseDigits_Wrapping(_, _)
ParseDigits_Wrapping(digits, acc) ==
    IF digits = <<>> THEN acc
    ELSE ParseDigits_Wrapping(Tail(digits), (acc * 10 + (Head(digits) - 48)) % U16)

u16_from_str_radix_Wrapping(digits) ==
    IF digits = <<>> THEN -1 ELSE ParseDigits_Wrapping(digits, 0)

u16_from_str_radix(digits) ==
    IF digits = <<>> THEN -1 ELSE ParseDigits(digits, 0)

TrapInu16_execute(vm) ==
    IF \A k \in 1..Len(vm.reader) : vm.reader[k] # NEWLINE
    THEN [vm EXCEPT !.hung = TRUE, !.reader = <<>>]
    ELSE LET scan   == InU16Loop(vm.reader, <<>>)
             number == u16_from_str_radix(scan.digits)
             vm1    == [vm EXCEPT !.reader = scan.rest]
         IN  IF number < 0 THEN Panic(vm1)
             ELSE inc_rpc(insert(vm1, "R0", number))

\* Faulty variant: the digits come least significant first.
RECURSIVE u16_to_string_Reversed(_)
u16_to_string_Reversed(c) ==
    IF c < 10 THEN <<48 + c>>
    ELSE <<48 + (c % 10)>> \o u16_to_string_Reversed(c \div 10)

\* u16::to_string: the ASCII decimal digits, most significant first.
RECURSIVE u16_to_string(_)
u16_to_string(c) ==
    IF c < 10 THEN <<48 + c>>
    ELSE Append(u16_to_string(c \div 10), 48 + (c % 10))

TrapOutu16_execute(vm) ==
    LET c        == vm.registers["R0"]
        c_string == u16_to_string(c)
    IN  inc_rpc(writer_write_all(vm, c_string))

-----------------------------------------------------------------------------
(* From<u16> for Box<dyn Instruction>: the decoder.  An undecodable word     *)
(* panics, which is the kind "panic".                                        *)

\* Faulty variant: a vector that names no trap decodes as HALT.
TrapFrom_UnknownHalts(trap_vect) ==
    IF trap_vect \in 32..39
    THEN [kind |-> <<"TrapGetC", "TrapOutC", "TrapPuts", "TrapIn", "TrapPutsp",
                     "TrapHalt", "TrapInu16", "TrapOutu16">>[trap_vect - 31]]
    ELSE [kind |-> "TrapHalt"]

TrapFrom(trap_vect) ==
    CASE trap_vect = 32 -> [kind |-> "TrapGetC"]
      [] trap_vect = 33 -> [kind |-> "TrapOutC"]
      [] trap_vect = 34 -> [kind |-> "TrapPuts"]
      [] trap_vect = 35 -> [kind |-> "TrapIn"]
      [] trap_vect = 36 -> [kind |-> "TrapPutsp"]
      [] trap_vect = 37 -> [kind |-> "TrapHalt"]
      [] trap_vect = 38 -> [kind |-> "TrapInu16"]
      [] trap_vect = 39 -> [kind |-> "TrapOutu16"]
      [] OTHER -> [kind |-> "panic"]

InstructionFrom(w) ==
    LET opcode == Shr(w, 12)
    IN  CASE opcode = 0 -> [kind |-> "Br", offset |-> Reg_poff9(w), nzp |-> Reg_fncd(w)]
          [] opcode = 1 ->
                IF Reg_fimm(w)
                THEN [kind |-> "AddConst", dr |-> Reg_dr(w), sr |-> Reg_sr1(w),
                      value |-> Reg_sextimm(w)]
                ELSE [kind |-> "AddReg", dr |-> Reg_dr(w), sr1 |-> Reg_sr1(w),
                      sr2 |-> Reg_sr2(w)]
          [] opcode = 2 -> [kind |-> "Ld", dr |-> Reg_dr(w), offset |-> Reg_poff9(w)]
          [] opcode = 3 -> [kind |-> "St", sr |-> Reg_dr(w), offset |-> Reg_poff9(w)]
          [] opcode = 4 ->
                IF Reg_get_nth_bit(w, 11)
                THEN [kind |-> "Jsr", offset |-> Reg_poff11(w)]
                ELSE [kind |-> "Jsrr", base |-> Reg_sr1(w)]
          [] opcode = 5 ->
                IF Reg_fimm(w)
                THEN [kind |-> "AndConst", dr |-> Reg_dr(w), sr |-> Reg_sr1(w),
                      value |-> Reg_sextimm(w)]
                ELSE [kind |-> "AndReg", dr |-> Reg_dr(w), sr1 |-> Reg_sr1(w),
                      sr2 |-> Reg_sr2(w)]
          [] opcode = 6 -> [kind |-> "Ldr", dr |-> Reg_dr(w), base |-> Reg_sr1(w),
                            offset |-> Reg_poff(w)]
          [] opcode = 7 -> [kind |-> "Str", sr |-> Reg_dr(w), base |-> Reg_sr1(w),
                            offset |-> Reg_poff(w)]
          [] opcode = 9 -> [kind |-> "Not", dr |-> Reg_dr(w), sr |-> Reg_sr1(w)]
          [] opcode = 10 -> [kind |-> "Ldi", dr |-> Reg_dr(w), offset |-> Reg_poff9(w)]
          [] opcode = 11 -> [kind |-> "Sti", sr |-> Reg_dr(w), offset |-> Reg_poff9(w)]
          [] opcode = 12 -> [kind |-> "Jmp", base |-> Reg_sr1(w)]
          [] opcode = 14 -> [kind |-> "Lea", dr |-> Reg_dr(w), offset |-> Reg_poff9(w)]
          [] opcode = 15 -> TrapFrom(BitAnd(w, 255))
          [] OTHER -> [kind |-> "panic"]

\* op.execute(vm): dynamic dispatch on the decoded instruction.
execute(vm, op) ==
    CASE op.kind = "AddConst"   -> AddConst_execute(vm, op)
      [] op.kind = "AddReg"     -> AddReg_execute(vm, op)
      [] op.kind = "AndConst"   -> AndConst_execute(vm, op)
      [] op.kind = "AndReg"     -> AndReg_execute(vm, op)
      [] op.kind = "Ld"         -> Ld_execute(vm, op)
      [] op.kind = "Ldi"        -> Ldi_execute(vm, op)
      [] op.kind = "Ldr"        -> Ldr_execute(vm, op)
      [] op.kind = "Lea"        -> Lea_execute(vm, op)
      [] op.kind = "St"         -> St_execute(vm, op)
      [] op.kind = "Sti"        -> Sti_execute(vm, op)
      [] op.kind = "Str"        -> Str_execute(vm, op)
      [] op.kind = "Not"        -> Not_execute(vm, op)
      [] op.kind = "Jmp"        -> Jmp_execute(vm, op)
      [] op.kind = "Jsrr"       -> Jsrr_execute(vm, op)
      [] op.kind = "Jsr"        -> Jsr_execute(vm, op)
      [] op.kind = "Br"         -> Br_execute(vm, op)
      [] op.kind = "TrapGetC"   -> TrapGetC_execute(vm)
      [] op.kind = "TrapOutC"   -> TrapOutC_execute(vm)
      [] op.kind = "TrapPuts"   -> TrapPuts_execute(vm)
      [] op.kind = "TrapIn"     -> TrapIn_execute(vm)
      [] op.kind = "TrapPutsp"  -> TrapPutsp_execute(vm)
      [] op.kind = "TrapHalt"   -> TrapHalt_execute(vm)
      [] op.kind = "TrapInu16"  -> TrapInu16_execute(vm)
      [] op.kind = "TrapOutu16" -> TrapOutu16_execute(vm)
      [] OTHER                  -> Panic(vm)

-----------------------------------------------------------------------------
(* VM::load *)

\* Read::read_exact on a two-byte buffer: at end of stream it fails, having
\* copied the bytes that were left (File, BufReader).
read_exact(prog, buf) ==
    IF Len(prog) >= 2
    THEN [ok |-> TRUE, buf |-> <<prog[1], prog[2]>>, rest |-> SubSeq(prog, 3, Len(prog))]
    ELSE IF Len(prog) = 1
    THEN [ok |-> FALSE, buf |-> <<prog[1], buf[2]>>, rest |-> <<>>]
    ELSE [ok |-> FALSE, buf |-> buf, rest |-> <<>>]

\* buf[1] as u16 | (buf[0] as u16) << 8
BigEndianWord(buf) == BitOr(buf[2], Shl(buf[1], 8))

\* The `while read_result.is_ok()` loop of load.
RECURSIVE load_loop(_, _, _, _, _)
load_loop(vm, base_address, buf, prog, read_ok) ==
    IF ~read_ok THEN vm
    ELSE LET r    == read_exact(prog, buf)
             word == BigEndianWord(r.buf)
             vm1  == [vm EXCEPT !.memory = Memory_write(vm.memory, base_address, word)]
         IN  IF AddOverflows(base_address, 1) THEN Panic(vm1)
             ELSE load_loop(vm1, (base_address + 1) % U16, r.buf, r.rest, r.ok)

load(vm, prog) ==
    LET r            == read_exact(prog, <<0, 0>>)
        base_address == BigEndianWord(r.buf)
        vm1          == insert(vm, "Rpc", base_address)
    IN  load_loop(vm1, base_address, r.buf, r.rest, r.ok)

-----------------------------------------------------------------------------
(* Program images and console input the model is run on.  An instruction    *)
(* word is built from its fields as the decoder takes it apart.             *)

EncBr(nzp, off9)          == nzp * 512 + off9
EncAddReg(dr, sr1, sr2)   == 4096 + dr * 512 + sr1 * 64 + sr2
EncAddImm(dr, sr1, imm5)  == 4096 + dr * 512 + sr1 * 64 + 32 + imm5
EncLd(dr, off9)           == 8192 + dr * 512 + off9
EncSt(sr, off9)           == 12288 + sr * 512 + off9
EncJsr(off11)             == 16384 + 2048 + off11
EncJsrr(base)             == 16384 + base * 64
EncAndReg(dr, sr1, sr2)   == 20480 + dr * 512 + sr1 * 64 + sr2
EncAndImm(dr, sr1, imm5)  == 20480 + dr * 512 + sr1 * 64 + 32 + imm5
EncLdr(dr, base, off6)    == 24576 + dr * 512 + base * 64 + off6
EncStr(sr, base, off6)    == 28672 + sr * 512 + base * 64 + off6
EncRti                    == 32768
EncNot(dr, sr)            == 36864 + dr * 512 + sr * 64 + 63
EncLdi(dr, off9)          == 40960 + dr * 512 + off9
EncSti(sr, off9)          == 45056 + sr * 512 + off9
EncJmp(base)              == 49152 + base * 64
EncUnused                 == 53248
EncLea(dr, off9)          == 57344 + dr * 512 + off9
EncTrap(trap_vect)        == 61440 + trap_vect

TRAP_GETC   == 32
TRAP_OUT    == 33
TRAP_PUTS   == 34
TRAP_IN     == 35
TRAP_PUTSP  == 36
TRAP_HALT   == 37
TRAP_INU16  == 38
TRAP_OUTU16 == 39

\* The image stream of a sequence of words: each word big-endian.
RECURSIVE ImageBytes(_)
ImageBytes(words) ==
    IF words = <<>> THEN <<>>
    ELSE <<Head(words) \div 256, Head(words) % 256>> \o ImageBytes(Tail(words))

MaxSetupLen == 2
MaxSteps == 7

\* The instruction words a generated image ends with: every instruction and
\* trap the decoder knows, and words it rejects.
Words ==
    { EncAddImm(0, 0, 31), EncAddImm(1, 1, 3), EncAddReg(0, 1, 0), EncAddReg(1, 1, 1),
      EncNot(1, 0), EncAndImm(0, 1, 21), EncAndImm(1, 1, 16), EncAndReg(0, 1, 0),
      EncAndReg(1, 0, 1),
      EncBr(0, 2), EncBr(2, 2), EncBr(5, 2), EncBr(7, 511), EncBr(4, 0), EncBr(1, 1),
      EncJsr(2), EncJsr(2047), EncJsrr(1), EncJsrr(7), EncJmp(1), EncJmp(7),
      EncLd(1, 0), EncLd(1, 511), EncLdi(0, 1), EncLdr(0, 1, 1), EncLdr(0, 1, 63),
      EncLea(1, 1),
      EncSt(1, 1), EncSti(1, 1), EncStr(1, 0, 63),
      EncTrap(TRAP_GETC), EncTrap(TRAP_OUT), EncTrap(TRAP_PUTS), EncTrap(TRAP_IN),
      EncTrap(TRAP_PUTSP), EncTrap(TRAP_HALT), EncTrap(TRAP_INU16),
      EncTrap(TRAP_OUTU16), EncTrap(0), EncRti, EncUnused }

\* The words a generated image starts with: they set the registers and COND up.
SetupWords ==
    { EncAddImm(0, 0, 31), EncAddImm(1, 1, 3), EncNot(1, 0), EncAndReg(0, 1, 0),
      EncLea(1, 1), EncTrap(TRAP_GETC) }

RECURSIVE SeqsUpTo(_, _)
SeqsUpTo(S, n) ==
    IF n = 0 THEN {<<>>}
    ELSE LET shorter == SeqsUpTo(S, n - 1)
         IN  shorter \cup {Append(q, x) : q \in shorter, x \in S}

GeneratedImages ==
    {<<PC_START>> \o setup \o <<w>> : setup \in SeqsUpTo(SetupWords, MaxSetupLen),
                                       w \in Words}

\* ADD R1,R1,#3; ADD R2,R2,#4; ADD R0,R1,R2; HALT
SumProgram ==
    <<PC_START, EncAddImm(1, 1, 3), EncAddImm(2, 2, 4), EncAddReg(0, 1, 2),
      EncTrap(TRAP_HALT)>>

\* The image of test_load_and_run.
TestProgram ==
    <<PC_START, EncAddImm(1, 1, 3), EncAddImm(2, 2, 4), EncAddReg(0, 1, 2),
      EncAndImm(1, 1, 1), EncAndReg(7, 0, 2), EncLd(5, 3), EncTrap(TRAP_HALT),
      0, 718>>

\* Loads near the top of memory: LD, LDI, LDR and LEA of negative, positive
\* and pointer data.
LoadsOrigin == U16 - 16

LoadsProgram ==
    <<LoadsOrigin,
      EncLd(1, 6), EncLdi(2, 5), EncLdr(3, 1, 1), EncLdi(6, 5), EncLea(4, 0),
      EncTrap(TRAP_HALT),
      LoadsOrigin + 7, 32769, LoadsOrigin + 9, 7>>

\* One instruction in the last cell of memory.
TopProgram == <<U16 - 1, EncLea(1, 1)>>

\* ADD R1,R1,#3; STI R1; LDI R2; HALT; pointer: the STI and the LDI go through
\* the same pointer cell, the word after HALT, whose content is ptr.
PointerProgram(ptr) ==
    <<PC_START, EncAddImm(1, 1, 3), EncSti(1, 3), EncLdi(2, 2), EncTrap(TRAP_HALT), ptr>>

\* Pointer contents: a free cell, cell 0, and the pointer cell itself.
PointerContents == {PC_START + 6, 0, PC_START + 4}

\* The keyboard status and data addresses of the LC-3 (0xFE00, 0xFE02).
KBSR == U16 - 512
KBDR == U16 - 510

\* LDI R0 through a pointer to KBSR; HALT.
KbsrProgram == <<PC_START, EncLdi(0, 2), EncTrap(TRAP_HALT), KBSR>>

\* GETC; IN; HALT
ConsoleProgram ==
    <<PC_START, EncTrap(TRAP_GETC), EncTrap(TRAP_IN), EncTrap(TRAP_HALT)>>

\* LEA R0 (the address of the cells); PUTS; HALT; the cells.
PutsProgram(cells) ==
    <<PC_START, EncLea(0, 3), EncTrap(TRAP_PUTS), EncTrap(TRAP_HALT)>> \o cells

\* "ABC"; cells with a high byte, one of them with a zero low byte; no character.
PutsCells == {<<65, 66, 67, 0>>, <<321, 256, 67, 0>>, <<0>>}

\* LEA R0 (the address of the cells); PUTSP; HALT; the cells.
PutspProgram(cells) ==
    <<PC_START, EncLea(0, 3), EncTrap(TRAP_PUTSP), EncTrap(TRAP_HALT)>> \o cells

\* "ABCD"; a cell with a zero high byte and one with a zero low byte.
PutspCells == {<<16706, 17220, 0>>, <<65, 16640, 0>>}

\* IN-U16 (R0 <- the number typed); OUT-U16; HALT.
OutU16Program ==
    <<PC_START, EncTrap(TRAP_INU16), EncTrap(TRAP_OUTU16), EncTrap(TRAP_HALT)>>

\* ADD R0,R0,#-1; STR R0,R0,#0; PUTS or PUTSP; HALT: the string starts in the
\* last cell of memory, which holds 0xFFFF, and cell 0 holds zero.
TopStringProgram(vect) ==
    <<PC_START, EncAddImm(0, 0, 31), EncStr(0, 0, 0), EncTrap(vect), EncTrap(TRAP_HALT)>>

FixtureImages ==
    {SumProgram, TestProgram, LoadsProgram, TopProgram, <<>>, <<PC_START>>,
     <<U16 - 2, EncTrap(TRAP_HALT)>>, KbsrProgram, ConsoleProgram}
    \cup {PutsProgram(cells) : cells \in PutsCells}
    \cup {PutspProgram(cells) : cells \in PutspCells}
    \cup {OutU16Program}
    \cup {TopStringProgram(vect) : vect \in {TRAP_PUTS, TRAP_PUTSP}}
    \cup {PointerProgram(ptr) : ptr \in PointerContents}

Input255 == <<50, 53, 53, 10>>

Inputs == {<<>>, Input255, <<65, 10>>}

Scenarios ==
    (GeneratedImages \X {Input255}) \cup (FixtureImages \X Inputs)

-----------------------------------------------------------------------------
(* The host program: construct the VM, load the image, run it.              *)

\* No associated function is called on its own while the VM runs an image.
NoCall == [fn |-> "none"]

VMState ==
    [memory |-> memory, registers |-> registers, halt |-> halt, reader |-> reader,
     writer |-> writer, flushed |-> flushed, panicked |-> FALSE, hung |-> FALSE]

Init ==
    /\ memory = Memory_default
    /\ registers = VMDefaultRegisters
    /\ halt = FALSE
    /\ writer = <<>>
    /\ \E sc \in Scenarios : program = ImageBytes(sc[1]) /\ reader = sc[2]
    /\ overflow_checks \in BOOLEAN
    /\ phase = "new"
    /\ current_addr = 0
    /\ instruction = 0
    /\ i_count = 0
    /\ call = NoCall
    /\ flushed = 0

\* vm.load(f), then the call of vm.run().
Load ==
    /\ phase = "new"
    /\ LET vm == load(VMState, program)
       IN  /\ memory' = vm.memory
           /\ registers' = vm.registers
           /\ phase' = IF vm.panicked THEN "panic" ELSE "run"
    /\ UNCHANGED <<halt, reader, writer, program, current_addr, instruction, i_count,
                   overflow_checks, call, flushed>>

\* Faulty variant: the loop does not test the halt flag.
Fetch_IgnoringHalt ==
    /\ phase = "run"
    /\ i_count < MaxSteps
    /\ current_addr' = registers["Rpc"]
    /\ instruction' = Memory_read(memory, registers["Rpc"])
    /\ phase' = "exec"
    /\ UNCHANGED <<memory, registers, halt, reader, writer, program, i_count,
                   overflow_checks, call, flushed>>

\* VM::run: the loop test and the fetch of one cycle.
Fetch ==
    /\ phase = "run"
    /\ ~halt
    /\ i_count < MaxSteps
    /\ current_addr' = registers["Rpc"]
    /\ instruction' = Memory_read(memory, registers["Rpc"])
    /\ phase' = "exec"
    /\ UNCHANGED <<memory, registers, halt, reader, writer, program, i_count,
                   overflow_checks, call, flushed>>

\* VM::run: decode and execute of one cycle.
Execute ==
    /\ phase = "exec"
    /\ LET op == InstructionFrom(instruction)
           vm == execute(VMState, op)
       IN  /\ memory' = vm.memory
           /\ registers' = vm.registers
           /\ halt' = vm.halt
           /\ reader' = vm.reader
           /\ writer' = vm.writer
           /\ phase' = IF vm.panicked THEN "panic"
                       ELSE IF vm.hung THEN "hang" ELSE "run"
           /\ i_count' = IF vm.panicked \/ vm.hung THEN i_count ELSE i_count + 1
           /\ flushed' = vm.flushed
    /\ UNCHANGED <<program, current_addr, instruction, overflow_checks, call>>

\* VM::run: the loop ends once halt is set, and run returns.
Return ==
    /\ phase = "run"
    /\ halt
    /\ phase' = "done"
    /\ UNCHANGED <<memory, registers, halt, reader, writer, program, current_addr,
                   instruction, i_count, overflow_checks, call, flushed>>

Next == Load \/ Fetch \/ Execute \/ Return

Spec == Init /\ [][Next]_vars

-----------------------------------------------------------------------------
(* The host program run on a decimal-input program: ADD R0,R0,#-1; IN-U16;  *)
(* HALT, with every console input of up to MaxInputLen bytes made of the    *)
(* digits 0 and 9, the letter A and the newline, and three longer inputs.   *)

InU16Program ==
    <<PC_START, EncAddImm(0, 0, 31), EncTrap(TRAP_INU16), EncTrap(TRAP_HALT)>>

MaxInputLen == 6

InputBytes == {48, 57, 65, NEWLINE}

\* "2A5 5\nB": 255 with other bytes between the digits and a byte after the newline.
InputMixed == <<50, 65, 53, 32, 53, 10, 66>>

\* "65535\nC" and "65536\nB": the largest u16 and the number after it.
InputLargest == <<54, 53, 53, 51, 53, 10, 67>>

InputTooBig == <<54, 53, 53, 51, 54, 10, 66>>

InU16Inputs ==
    SeqsUpTo(InputBytes, MaxInputLen) \cup {Input255, InputMixed, InputLargest, InputTooBig}

InU16Init ==
    /\ memory = Memory_default
    /\ registers = VMDefaultRegisters
    /\ halt = FALSE
    /\ writer = <<>>
    /\ program = ImageBytes(InU16Program)
    /\ reader \in InU16Inputs
    /\ overflow_checks \in BOOLEAN
    /\ phase = "new"
    /\ current_addr = 0
    /\ instruction = 0
    /\ i_count = 0
    /\ call = NoCall
    /\ flushed = 0

InU16Spec == InU16Init /\ [][Next]_vars

-----------------------------------------------------------------------------
(* Functions called on their own, on a VM that has been constructed and no  *)
(* more.  None of them adds, so the build makes no difference to them.      *)

IdleVM ==
    /\ memory = Memory_default
    /\ registers = VMDefaultRegisters
    /\ halt = FALSE
    /\ reader = <<>>
    /\ writer = <<>>
    /\ flushed = 0
    /\ program = <<>>
    /\ overflow_checks = FALSE
    /\ phase = "call"
    /\ current_addr = 0
    /\ instruction = 0
    /\ i_count = 0

\* Reg::sext on every field of the widths the instruction set has: imm5,
\* offset6, offset9 and offset11.
SextWidths == {5, 6, 9, 11}

SextInit ==
    /\ IdleVM
    /\ \E b \in SextWidths : \E n \in 0..(Pow2(b) - 1) :
          call = [fn |-> "sext", n |-> n, b |-> b, done |-> FALSE, ret |-> 0]

\* Reg::sext(n, b)
SextCall ==
    /\ call.fn = "sext"
    /\ ~call.done
    /\ call' = [call EXCEPT !.done = TRUE, !.ret = Reg_sext(call.n, call.b)]
    /\ UNCHANGED <<memory, registers, halt, reader, writer, program, phase,
                   current_addr, instruction, i_count, overflow_checks, flushed>>

SextNext == SextCall

SextSpec == SextInit /\ [][SextNext]_vars

\* Memory::read and Memory::write on the memory of the constructed VM, in any
\* order, on a few addresses and values.  `last` records, for each address, the
\* value written to it most recently (0 when it has not been written).
MemAddrs == {0, PC_START, U16 - 512, U16 - 1}

MemValues == {0, 1, U16 - 1}

MemoryInit ==
    /\ IdleVM
    /\ call = [fn |-> "memory", op |-> "new", address |-> 0, val |-> 0, ret |-> 0,
               last |-> [x \in MemAddrs |-> 0]]

\* vm.memory.write(address, val)
MemoryWriteCall ==
    /\ call.fn = "memory"
    /\ \E x \in MemAddrs, v \in MemValues :
          /\ memory' = Memory_write(memory, x, v)
          /\ call' = [call EXCEPT !.op = "write", !.address = x, !.val = v,
                                  !.last[x] = v]
    /\ UNCHANGED <<registers, halt, reader, writer, program, phase,
                   current_addr, instruction, i_count, overflow_checks, flushed>>

\* vm.memory.read(address)
MemoryReadCall ==
    /\ call.fn = "memory"
    /\ \E x \in MemAddrs :
          call' = [call EXCEPT !.op = "read", !.address = x,
                               !.ret = Memory_read(memory, x)]
    /\ UNCHANGED <<memory, registers, halt, reader, writer, program, phase,
                   current_addr, instruction, i_count, overflow_checks, flushed>>

MemoryNext == MemoryWriteCall \/ MemoryReadCall

MemorySpec == MemoryInit /\ [][MemoryNext]_vars

\* The decoder on every 16-bit word.
DecodeInit ==
    /\ IdleVM
    /\ \E w \in 0..(U16 - 1) :
          call = [fn |-> "decode", w |-> w, done |-> FALSE, ret |-> [kind |-> "none"]]

\* let op: Box<dyn Instruction> = instruction.into()
DecodeCall ==
    /\ call.fn = "decode"
    /\ ~call.done
    /\ call' = [call EXCEPT !.done = TRUE, !.ret = InstructionFrom(call.w)]
    /\ UNCHANGED <<memory, registers, halt, reader, writer, program, phase,
                   current_addr, instruction, i_count, overflow_checks, flushed>>

DecodeNext == DecodeCall

DecodeSpec == DecodeInit /\ [][DecodeNext]_vars

-----------------------------------------------------------------------------
(* Vocabulary of the properties.  The fields of the instruction word are    *)
(* taken here by arithmetic on the word, independently of the decoder.      *)

Opcode(w) == w \div 4096

Bit(w, k) == (w \div Pow2(k)) % 2

Field(w, hi, lo) == (w \div Pow2(lo)) % Pow2(hi - lo + 1)

RegName(n) == <<"R0", "R1", "R2", "R3", "R4", "R5", "R6", "R7">>[n + 1]

\* Two's-complement value of the low b bits of w, as a u16.
SextField(w, b) ==
    LET n == w % Pow2(b)
    IN  IF n >= Pow2(b - 1) THEN n + U16 - Pow2(b) ELSE n

FL_POS == 1
FL_ZRO == 2
FL_NEG == 4

\* The condition code of a value: ZERO, NEGATIVE (bit 15 set) or POSITIVE.
FlagOf(v) == IF v = 0 THEN FL_ZRO ELSE IF v >= 32768 THEN FL_NEG ELSE FL_POS

IsAdd(w)  == Opcode(w) = 1
IsAnd(w)  == Opcode(w) = 5
IsNot(w)  == Opcode(w) = 9
IsLd(w)   == Opcode(w) = 2
IsLdi(w)  == Opcode(w) = 10
IsLdr(w)  == Opcode(w) = 6
IsLea(w)  == Opcode(w) = 14
IsBr(w)   == Opcode(w) = 0
IsJsr(w)  == Opcode(w) = 4 /\ Bit(w, 11) = 1
IsJsrr(w) == Opcode(w) = 4 /\ Bit(w, 11) = 0
IsTrap(w, vect) == Opcode(w) = 15 /\ w % 256 = vect
IsIoTrap(w) ==
    \E vect \in {TRAP_GETC, TRAP_OUT, TRAP_PUTS, TRAP_IN, TRAP_PUTSP, TRAP_INU16,
                 TRAP_OUTU16} : IsTrap(w, vect)

\* One cycle is in progress: `instruction`, fetched at `current_addr`, is about
\* to execute.
Executing == phase = "exec"

\* A cycle has completed: `instruction`, fetched at `current_addr`, is the
\* instruction executed last, and it returned.
Executed == phase \in {"run", "done"} /\ i_count > 0

NextAddr(a) == (a + 1) % U16

-----------------------------------------------------------------------------
(* C1: in every cycle of VM::run the program counter is advanced by 1 right  *)
(* after the fetch and before the instruction executes: while the            *)
(* instruction fetched at address a executes, PC reads (a + 1) mod 2^16.     *)
(* lib.rs advances PC at the end of each execute method instead, so this     *)
(* statement of the claim is violated.                                       *)
C1_PcAdvancedBeforeExecute ==
    Executing => registers["Rpc"] = NextAddr(current_addr)

(* C2: for every JSR or JSRR fetched at address a, R7 afterwards holds       *)
(* (a + 1) mod 2^16, the address of the instruction after the call, never a. *)
(* lib.rs saves the PC it has not advanced, the call's own address.          *)
C2_CallSavesNextAddress ==
    (Executed /\ (IsJsr(instruction) \/ IsJsrr(instruction)))
        => registers["R7"] = NextAddr(current_addr)

(* C3: each of the traps GETC, OUT, PUTS, IN, PUTSP, IN-U16 and OUT-U16 sets *)
(* R7 to the post-increment PC, the address of the instruction after the     *)
(* TRAP.  The traps of lib.rs never write R7.                                *)
C3_TrapSavesReturnAddress ==
    (Executed /\ IsIoTrap(instruction))
        => registers["R7"] = NextAddr(current_addr)

(* C4: loading and running ADD R1,R1,#3; ADD R2,R2,#4; ADD R0,R1,R2; HALT    *)
(* from a freshly constructed VM ends with R0 = 7, R1 = 3, R2 = 4, every     *)
(* other general-purpose register 0 and the halt flag set; the instructions  *)
(* execute once each, in address order, and the run does not abort.          *)
C4_SumProgramResult ==
    program = ImageBytes(SumProgram) =>
        /\ phase \notin {"panic", "hang"}
        /\ i_count <= 4
        /\ Executing => /\ current_addr = PC_START + i_count
                        /\ instruction = SumProgram[i_count + 2]
        /\ phase = "done" =>
              /\ halt
              /\ i_count = 4
              /\ registers["R0"] = 7
              /\ registers["R1"] = 3
              /\ registers["R2"] = 4
              /\ \A r \in {"R3", "R4", "R5", "R6", "R7"} : registers[r] = 0

C4_Witness ==
    program = ImageBytes(SumProgram) /\ phase = "done" /\ registers["R0"] = 7

(* C5: executing TRAP x25 (HALT) sets the halt flag and the run loop then    *)
(* fetches no further instruction; once the flag is set it is never cleared  *)
(* and no register or memory cell changes; no instruction other than HALT    *)
(* sets the flag.                                                            *)
C5_HaltIsTerminal ==
    [][ /\ (Executing /\ IsTrap(instruction, TRAP_HALT)) => halt'
        /\ (~halt /\ halt') => (Executing /\ IsTrap(instruction, TRAP_HALT))
        /\ halt => /\ halt'
                   /\ phase' # "exec"
                   /\ UNCHANGED <<registers, memory, reader, writer, current_addr,
                                  instruction, i_count>> ]_vars

C5_Witness ==
    halt /\ phase = "done" /\ IsTrap(instruction, TRAP_HALT) /\ i_count > 1

\* The branch test of the claims: some flag is set in both the mask (bits
\* 11-9 of the word) and COND.
BrMaskMeets(w, cond) ==
    \E k \in 0..2 : Bit(Field(w, 11, 9), k) = 1 /\ Bit(cond, k) = 1

(* C6: BR transfers control if and only if (nzp_mask & COND) != 0, the mask  *)
(* being bits 11-9 of the word: when the test holds PC is set to the branch  *)
(* target Br::execute computes, and when it fails (COND = ZERO with a mask   *)
(* of NEGATIVE and POSITIVE, say) PC is the address right after the BR,      *)
(* which is where the next instruction is fetched.                           *)
C6_BranchIffMaskMeetsCond ==
    [][ /\ (Executing /\ IsBr(instruction) /\ phase' = "run") =>
              /\ IF BrMaskMeets(instruction, registers["Rcnd"])
                 THEN registers'["Rpc"] =
                          (current_addr + Field(instruction, 8, 0)) % U16
                 ELSE registers'["Rpc"] = NextAddr(current_addr)
        /\ (Executed /\ IsBr(instruction) /\ phase' = "exec"
              /\ ~BrMaskMeets(instruction, registers["Rcnd"])) =>
              /\ current_addr' = NextAddr(current_addr)
              /\ instruction' = Memory_read(memory, NextAddr(current_addr)) ]_vars

C6_Witness ==
    /\ Executed /\ IsBr(instruction)
    /\ registers["Rcnd"] = FL_ZRO
    /\ Field(instruction, 11, 9) = 5
    /\ registers["Rpc"] = NextAddr(current_addr)

(* C7: when a BR fetched at address a is taken, the next PC is               *)
(* (a + 1 + sext(off9)) mod 2^16; an offset field with bit 8 set branches    *)
(* backwards.  lib.rs adds the zero-extended field to the PC it has not      *)
(* advanced.                                                                 *)
C7_BranchTarget ==
    (Executed /\ IsBr(instruction) /\ BrMaskMeets(instruction, registers["Rcnd"]))
        => registers["Rpc"] = (current_addr + 1 + SextField(instruction, 9)) % U16

(* C8: after each of ADD, AND, NOT, LD, LDI, LDR and LEA has written its     *)
(* destination register r (bits 11-9), COND is ZERO if r = 0, otherwise      *)
(* NEGATIVE if bit 15 of r is 1, otherwise POSITIVE.                         *)
C8_CondFollowsDestination ==
    (Executed /\ (\/ IsAdd(instruction) \/ IsAnd(instruction) \/ IsNot(instruction)
                  \/ IsLd(instruction) \/ IsLdi(instruction) \/ IsLdr(instruction)
                  \/ IsLea(instruction)))
        => registers["Rcnd"] = FlagOf(registers[RegName(Field(instruction, 11, 9))])

C8_Witness ==
    /\ Executed /\ IsLdr(instruction)
    /\ registers[RegName(Field(instruction, 11, 9))] >= 32768
    /\ registers["Rcnd"] = FL_NEG

(* C9: in every reachable state COND holds exactly one of the flags          *)
(* NEGATIVE, ZERO, POSITIVE, and at construction it holds ZERO.  lib.rs      *)
(* constructs the VM with COND = 0, no flag at all.                          *)
C9_CondHoldsOneFlag ==
    /\ registers["Rcnd"] \in {FL_NEG, FL_ZRO, FL_POS}
    /\ phase = "new" => registers["Rcnd"] = FL_ZRO

(* C10: for all values a of sr1 and b (the value of sr2 in register form,    *)
(* sext(imm5) in immediate form) ADD leaves dr = (a + b) mod 2^16 and COND   *)
(* the sign/zero of that sum, also when dr is one of the sources.            *)
C10_AddWraps ==
    [][ (Executing /\ IsAdd(instruction) /\ phase' = "run") =>
            LET a   == registers[RegName(Field(instruction, 8, 6))]
                b   == IF Bit(instruction, 5) = 1 THEN SextField(instruction, 5)
                       ELSE registers[RegName(Field(instruction, 2, 0))]
                dr  == RegName(Field(instruction, 11, 9))
                sum == (a + b) % U16
            IN  /\ registers'[dr] = sum
                /\ registers'["Rcnd"] = FlagOf(sum) ]_vars

C10_Witness ==
    /\ program = ImageBytes(<<PC_START, EncAddImm(0, 0, 31), EncAddImm(1, 1, 3),
                              EncAddReg(0, 1, 0)>>)
    /\ Executed /\ i_count = 3
    /\ registers["R0"] = 2
    /\ registers["Rcnd"] = FL_POS

(* C11: for every width b of 5, 6, 9 and 11 and every b-bit field n,         *)
(* sext(n, b) is n when bit b-1 of n is 0, and n with every bit above bit    *)
(* b-1 set to 1, as a 16-bit value, when it is 1; for a 5-bit immediate i    *)
(* that is i when bit 4 is 0 and i | 0xFFE0 (i + 65504) otherwise.           *)
C11_SextFillsSignBit ==
    (call.fn = "sext" /\ call.done) =>
        /\ call.ret = IF Bit(call.n, call.b - 1) = 0 THEN call.n
                      ELSE call.n + (U16 - Pow2(call.b))
        /\ call.b = 5 => call.ret = IF call.n < 16 THEN call.n ELSE call.n + 65504

C11_Witness ==
    /\ call.fn = "sext" /\ call.done
    /\ call.b = 11 /\ call.n = 1025
    /\ call.ret = 64513

(* C12: LD fetched at address a loads dr = mem[(a + 1 + sext(off9)) mod      *)
(* 2^16], the cell at the post-increment PC plus the sign-extended offset,   *)
(* and sets COND from the loaded value.  lib.rs reads the cell at a plus the *)
(* zero-extended field, so this statement of the claim is violated.          *)
C12_LdAddress ==
    (Executed /\ IsLd(instruction)) =>
        LET dr == RegName(Field(instruction, 11, 9))
            address == (current_addr + 1 + SextField(instruction, 9)) % U16
        IN  /\ registers[dr] = Memory_read(memory, address)
            /\ registers["Rcnd"] = FlagOf(registers[dr])

(* C13: LDI fetched at address a with offset o reads the pointer stored at   *)
(* PC + o, PC being (a + 1) mod 2^16 and o the sign-extended field, and      *)
(* loads dr from the cell that pointer addresses.                            *)
C13_LdiPointerCell ==
    (Executed /\ IsLdi(instruction)) =>
        LET dr == RegName(Field(instruction, 11, 9))
            pointer == (current_addr + 1 + SextField(instruction, 9)) % U16
        IN  registers[dr] = Memory_read(memory, Memory_read(memory, pointer))

(* C13, round trip: for every pointer content, storing V (3, in R1) via STI  *)
(* and then loading via LDI through the same pointer cell returns V in dr    *)
(* (R2).                                                                     *)
C13_StiLdiRoundTrip ==
    \A ptr \in PointerContents :
        (program = ImageBytes(PointerProgram(ptr)) /\ phase = "done") =>
            registers["R2"] = 3

(* C13: both parts of the claim.                                             *)
C13_LdiReadsThroughPointer == C13_LdiPointerCell /\ C13_StiLdiRoundTrip

(* C14: LDR loads dr = mem[(base + sext(off6)) mod 2^16], base being the     *)
(* value of the register in bits 8-6 before the instruction and off6 the     *)
(* low 6 bits (a field with bit 5 set addresses cells below base), and sets  *)
(* COND from the loaded value.  lib.rs adds the zero-extended field, so      *)
(* this statement of the claim is violated.                                  *)
C14_LdrAddress ==
    [][ (Executing /\ IsLdr(instruction) /\ phase' = "run") =>
            LET base    == registers[RegName(Field(instruction, 8, 6))]
                address == (base + SextField(instruction, 6)) % U16
                dr      == RegName(Field(instruction, 11, 9))
            IN  /\ registers'[dr] = Memory_read(memory, address)
                /\ registers'["Rcnd"] = FlagOf(registers'[dr]) ]_vars

(* C15: LEA fetched at address a sets dr = (a + 1 + sext(off9)) mod 2^16,    *)
(* the address itself and not the content of a cell, and sets COND from      *)
(* that address.  lib.rs computes a plus the zero-extended field, so this    *)
(* statement of the claim is violated.                                       *)
C15_LeaAddress ==
    (Executed /\ IsLea(instruction)) =>
        LET dr == RegName(Field(instruction, 11, 9))
            address == (current_addr + 1 + SextField(instruction, 9)) % U16
        IN  /\ registers[dr] = address
            /\ registers["Rcnd"] = FlagOf(address)

IsSt(w)  == Opcode(w) = 3
IsSti(w) == Opcode(w) = 11
IsStr(w) == Opcode(w) = 7

\* Memory `after` is memory `before` with cell `address` set to `val` and no
\* other cell changed.
OnlyCellWritten(before, after, address, val) ==
    \A x \in (DOMAIN before) \cup (DOMAIN after) \cup {address} :
        Memory_read(after, x) = IF x = address THEN val ELSE Memory_read(before, x)

(* C16: ST fetched at address a writes the value of sr (bits 11-9) to        *)
(* mem[(a + 1 + sext(off9)) mod 2^16] and STR writes it to                   *)
(* mem[(base + sext(off6)) mod 2^16]; each changes exactly that one cell     *)
(* and no general-purpose register.  lib.rs adds zero-extended fields, and   *)
(* for ST to the PC it has not advanced, so this statement is violated.      *)
C16_StoreAddress ==
    [][ (Executing /\ (IsSt(instruction) \/ IsStr(instruction)) /\ phase' = "run") =>
            LET sr      == registers[RegName(Field(instruction, 11, 9))]
                base    == registers[RegName(Field(instruction, 8, 6))]
                address == IF IsSt(instruction)
                           THEN (current_addr + 1 + SextField(instruction, 9)) % U16
                           ELSE (base + SextField(instruction, 6)) % U16
            IN  /\ OnlyCellWritten(memory, memory', address, sr)
                /\ \A r \in GeneralReg : registers'[r] = registers[r] ]_vars

\* Bitwise AND of two u16 values, bit by bit.
AndBits(a, b) ==
    LET bits == {k \in 0..15 : Bit(a, k) = 1 /\ Bit(b, k) = 1}
        RECURSIVE Sum(_)
        Sum(S) == IF S = {} THEN 0
                  ELSE LET k == CHOOSE k \in S : TRUE IN Pow2(k) + Sum(S \ {k})
    IN  Sum(bits)

(* C17: AND leaves dr = sr1 & sr2 when bit 5 of the word is 0 and            *)
(* dr = sr1 & sext(imm5) when bit 5 is 1, sr1 and sr2 being the values of    *)
(* the source registers before the instruction, and sets COND from the       *)
(* result.                                                                   *)
C17_AndResult ==
    [][ (Executing /\ IsAnd(instruction) /\ phase' = "run") =>
            LET a   == registers[RegName(Field(instruction, 8, 6))]
                b   == IF Bit(instruction, 5) = 1 THEN SextField(instruction, 5)
                       ELSE registers[RegName(Field(instruction, 2, 0))]
                dr  == RegName(Field(instruction, 11, 9))
            IN  /\ registers'[dr] = AndBits(a, b)
                /\ registers'["Rcnd"] = FlagOf(AndBits(a, b)) ]_vars

C17_Witness ==
    /\ Executed /\ instruction = EncAndImm(0, 1, 21)
    /\ registers["R1"] = 65535
    /\ registers["R0"] = 65525
    /\ registers["Rcnd"] = FL_NEG

IsJmp(w) == Opcode(w) = 12

(* C18: JMP and JSRR set PC to the value the base register (bits 8-6) held   *)
(* before the instruction executed, for every base register R0..R7,          *)
(* including JSRR with base R7, whose old value is the jump target.          *)
(* Jsrr::execute writes R7 before it reads the base register, so for base    *)
(* R7 this statement of the claim is violated.                               *)
C18_JumpToOldBase ==
    [][ (Executing /\ (IsJmp(instruction) \/ IsJsrr(instruction)) /\ phase' = "run") =>
            registers'["Rpc"] = registers[RegName(Field(instruction, 8, 6))] ]_vars

(* C19: JSR fetched at address a sets PC = (a + 1 + sext(off11)) mod 2^16,   *)
(* the post-increment PC plus the sign-extended low 11 bits of the word (a   *)
(* field with bit 10 set jumps backwards).  lib.rs adds the zero-extended    *)
(* field to a, so this statement of the claim is violated.                   *)
C19_JsrTarget ==
    (Executed /\ IsJsr(instruction)) =>
        registers["Rpc"] = (current_addr + 1 + SextField(instruction, 11)) % U16

\* The instruction a word stands for, by its opcode (bits 15-12), bit 5 for
\* ADD and AND, bit 11 for JSR/JSRR and the low 8 bits for TRAP.
KindOfWord(w) ==
    LET trap == w % 256
    IN  CASE IsBr(w)   -> "Br"
          [] IsAdd(w)  -> IF Bit(w, 5) = 1 THEN "AddConst" ELSE "AddReg"
          [] IsLd(w)   -> "Ld"
          [] IsSt(w)   -> "St"
          [] IsJsr(w)  -> "Jsr"
          [] IsJsrr(w) -> "Jsrr"
          [] IsAnd(w)  -> IF Bit(w, 5) = 1 THEN "AndConst" ELSE "AndReg"
          [] IsLdr(w)  -> "Ldr"
          [] IsStr(w)  -> "Str"
          [] IsNot(w)  -> "Not"
          [] IsLdi(w)  -> "Ldi"
          [] IsSti(w)  -> "Sti"
          [] IsJmp(w)  -> "Jmp"
          [] IsLea(w)  -> "Lea"
          [] Opcode(w) = 15 /\ trap = TRAP_GETC   -> "TrapGetC"
          [] Opcode(w) = 15 /\ trap = TRAP_OUT    -> "TrapOutC"
          [] Opcode(w) = 15 /\ trap = TRAP_PUTS   -> "TrapPuts"
          [] Opcode(w) = 15 /\ trap = TRAP_IN     -> "TrapIn"
          [] Opcode(w) = 15 /\ trap = TRAP_PUTSP  -> "TrapPutsp"
          [] Opcode(w) = 15 /\ trap = TRAP_HALT   -> "TrapHalt"
          [] Opcode(w) = 15 /\ trap = TRAP_INU16  -> "TrapInu16"
          [] Opcode(w) = 15 /\ trap = TRAP_OUTU16 -> "TrapOutu16"
          [] OTHER -> "none"

FatalWord(w) ==
    \/ Opcode(w) = 8
    \/ Opcode(w) = 13
    \/ Opcode(w) = 15 /\ (w % 256 < 32 \/ w % 256 > 39)

(* C20: decoding a 16-bit word is a fatal error if and only if its opcode    *)
(* (bits 15-12) is 0b1000 or 0b1101, or its opcode is 0b1111 and its low 8   *)
(* bits are outside 0x20..0x27; every other word decodes to exactly one      *)
(* instruction, the one its opcode stands for, and the extraction of a       *)
(* register field never fails.                                               *)
C20_DecodeFatalIff ==
    (call.fn = "decode" /\ call.done) =>
        /\ call.ret.kind = "panic" <=> FatalWord(call.w)
        /\ ~FatalWord(call.w) => call.ret.kind = KindOfWord(call.w)
        /\ \A f \in DOMAIN call.ret \cap {"dr", "sr", "sr1", "sr2", "base"} :
              call.ret[f] \in GeneralReg

C20_Witness ==
    /\ call.fn = "decode" /\ call.done
    /\ call.w = EncTrap(40)
    /\ call.ret.kind = "panic"

(* C21: a memory read of address KBSR polls the input without blocking:      *)
(* with no pending input it leaves KBSR = 0, and when a byte is available    *)
(* it sets bit 15 of KBSR and copies that byte into KBDR.  Memory::read of   *)
(* lib.rs returns the cell and does nothing else, at every address, so this  *)
(* statement of the claim is violated.                                       *)
C21_KbsrReadPolls ==
    [][ (program = ImageBytes(KbsrProgram) /\ Executing /\ IsLdi(instruction)
            /\ phase' = "run") =>
            IF reader = <<>>
            THEN Memory_read(memory', KBSR) = 0
            ELSE /\ Bit(Memory_read(memory', KBSR), 15) = 1
                 /\ Memory_read(memory', KBDR) = Head(reader) ]_vars

(* C22: for every address other than KBSR and KBDR memory is plain storage:  *)
(* a read returns the value written to that address most recently (0 if it   *)
(* was never written since construction) and changes no cell, and a write    *)
(* to address x changes no cell other than x.                                *)
C22_PlainStorage ==
    [][ (call.fn = "memory" /\ call' # call) =>
          /\ (call'.op = "read" /\ call'.address \notin {KBSR, KBDR}) =>
                /\ call'.ret = call.last[call'.address]
                /\ memory' = memory
          /\ (call'.op = "write" /\ call'.address \notin {KBSR, KBDR}) =>
                /\ Memory_read(memory', call'.address) = call'.val
                /\ \A x \in ((DOMAIN memory) \cup (DOMAIN memory') \cup MemAddrs)
                              \ {call'.address} :
                      Memory_read(memory', x) = Memory_read(memory, x) ]_vars

C22_Witness ==
    /\ call.fn = "memory" /\ call.op = "read"
    /\ call.address = PC_START /\ call.ret = 1
    /\ Memory_read(memory, 0) = U16 - 1
    /\ Memory_read(memory, U16 - 1) = 1

\* The big-endian words of an image file.
RECURSIVE WordsOf(_)
WordsOf(bytes) ==
    IF Len(bytes) < 2 THEN <<>>
    ELSE <<bytes[1] * 256 + bytes[2]>> \o WordsOf(SubSeq(bytes, 3, Len(bytes)))

\* Memory `mem` holds the words w1..wn that follow the origin in `image`, at
\* origin, origin + 1, ..., and 0, its value at construction, everywhere else.
ImageLaidOut(mem, image) ==
    LET origin == image[1]
        n      == Len(image) - 1
        cells  == {(origin + i - 1) % U16 : i \in 1..n}
    IN  /\ \A i \in 1..n : Memory_read(mem, (origin + i - 1) % U16) = image[i + 1]
        /\ \A x \in (DOMAIN mem) \ cells : Memory_read(mem, x) = 0

(* C23: after VM::load of an image whose first big-endian word is origin     *)
(* and whose following words are w1..wn (n >= 0), mem[origin + i - 1] = wi   *)
(* for every i in 1..n and every other cell keeps its prior value; loading   *)
(* stops at the end of the stream without error.  The loop of VM::load       *)
(* writes once more after the read that fails, so this statement of the      *)
(* claim is violated.                                                        *)
C23_LoadLayout ==
    [][ (phase = "new" /\ Len(program) >= 2) =>
            /\ phase' = "run"
            /\ ImageLaidOut(memory', WordsOf(program)) ]_vars

(* C24: the register file is mutated only by instruction execution:         *)
(* VM::load changes no register, so R0..R7, COND and PC hold their           *)
(* construction values when run starts, whatever origin the image declares.  *)
(* VM::load of lib.rs sets PC to the origin, so this statement of the claim  *)
(* is violated.                                                              *)
C24_LoadKeepsRegisters ==
    [][ phase = "new" => registers' = VMDefaultRegisters ]_vars

\* The instructions that add an offset to PC or to a base register.
AddsOffset(w) ==
    \/ IsLd(w) \/ IsLdi(w) \/ IsLdr(w) \/ IsLea(w)
    \/ IsSt(w) \/ IsSti(w) \/ IsStr(w) \/ IsJsr(w)

(* C25: all 16-bit address and value arithmetic wraps modulo 2^16 and never  *)
(* aborts: the loader's cell address and the effective-address sums of LD,   *)
(* LDI, LDR, LEA, ST, STI, STR and JSR wrap rather than overflow, and        *)
(* advancing PC from 0xFFFF yields 0x0000.  These sums are the plain `+` of  *)
(* Rust in lib.rs, which panics in a build with overflow checks, so this     *)
(* statement of the claim is violated.                                       *)
C25_ArithmeticWraps ==
    [][ /\ phase = "new" => phase' = "run"
        /\ (Executing /\ AddsOffset(instruction)) => phase' = "run"
        /\ (Executing /\ AddsOffset(instruction) /\ ~IsJsr(instruction)
              /\ current_addr = U16 - 1) => registers'["Rpc"] = 0 ]_vars

(* C26: if the reader fails or is closed during GETC, IN or IN-U16 the run   *)
(* aborts with a fatal error; the engine never continues with R0 set to a    *)
(* byte that was not actually read.  lib.rs ignores the result of every      *)
(* read, so this statement of the claim is violated.                         *)
C26_IoFailureAborts ==
    [][ (Executing /\ reader = <<>>
            /\ (\/ IsTrap(instruction, TRAP_GETC) \/ IsTrap(instruction, TRAP_IN)
                \/ IsTrap(instruction, TRAP_INU16))) =>
            phase' = "panic" ]_vars

\* The console input as the decimal-input trap is specified to take it: the
\* position of the first newline, the digit bytes before it, their value.
HasNewline(rd) == \E k \in 1..Len(rd) : rd[k] = 10

FirstNewline(rd) ==
    CHOOSE k \in 1..Len(rd) : rd[k] = 10 /\ \A j \in 1..(k - 1) : rd[j] # 10

IsDigitByte(b) == b \in 48..57

DigitsBeforeNewline(rd) ==
    SelectSeq(SubSeq(rd, 1, FirstNewline(rd) - 1), IsDigitByte)

RECURSIVE DecimalValue(_)
DecimalValue(ds) ==
    IF ds = <<>> THEN 0
    ELSE 10 * DecimalValue(SubSeq(ds, 1, Len(ds) - 1)) + (ds[Len(ds)] - 48)

AfterNewline(rd) == SubSeq(rd, FirstNewline(rd) + 1, Len(rd))

(* C27: given input made of decimal digit bytes, possibly interleaved with   *)
(* other non-newline bytes, followed by a newline, IN-U16 leaves R0 equal    *)
(* to the decimal value of the digits in input order, discards the other     *)
(* bytes and consumes the input exactly up to and including the first        *)
(* newline ("255\n" leaves R0 = 255 after consuming 4 bytes).  The value is  *)
(* one a u16 holds (C28 is the other case).                                  *)
C27_InU16Value ==
    [][ (Executing /\ IsTrap(instruction, TRAP_INU16) /\ HasNewline(reader)
            /\ DigitsBeforeNewline(reader) # <<>>
            /\ DecimalValue(DigitsBeforeNewline(reader)) < U16) =>
            /\ phase' = "run"
            /\ registers'["R0"] = DecimalValue(DigitsBeforeNewline(reader))
            /\ reader' = AfterNewline(reader)
            /\ reader = Input255 => (registers'["R0"] = 255 /\ reader' = <<>>) ]_vars

C27_Witness ==
    /\ Executed /\ IsTrap(instruction, TRAP_INU16)
    /\ registers["R0"] = 255
    /\ reader = <<66>>

(* C28: IN-U16 fails fatally, aborting the run without modifying R0, when    *)
(* the digits accumulated before the newline form a value greater than       *)
(* 65535.                                                                    *)
C28_InU16OverflowFatal ==
    [][ (Executing /\ IsTrap(instruction, TRAP_INU16) /\ HasNewline(reader)
            /\ DecimalValue(DigitsBeforeNewline(reader)) >= U16) =>
            /\ phase' = "panic"
            /\ registers' = registers
            /\ memory' = memory ]_vars

C28_Witness ==
    /\ phase = "panic" /\ IsTrap(instruction, TRAP_INU16)
    /\ registers["R0"] = U16 - 1
    /\ reader = <<66>>

(* C29: GETC consumes exactly one byte from the reader, stores it            *)
(* zero-extended in R0 and writes nothing to the writer; IN does the same    *)
(* and additionally writes that one byte, and only that byte, to the writer. *)
C29_GetcAndIn ==
    [][ (Executing /\ reader # <<>> /\ phase' = "run"
            /\ (IsTrap(instruction, TRAP_GETC) \/ IsTrap(instruction, TRAP_IN))) =>
            /\ reader' = Tail(reader)
            /\ registers'["R0"] = Head(reader)
            /\ registers'["R0"] < 256
            /\ writer' = IF IsTrap(instruction, TRAP_IN)
                         THEN Append(writer, Head(reader)) ELSE writer ]_vars

C29_Witness ==
    /\ program = ImageBytes(ConsoleProgram) /\ phase = "done"
    /\ registers["R0"] = 10
    /\ reader = <<>>
    /\ writer = <<10>>

\* The number of cells from address a on, up to the first cell that is zero.
\* Every cell that is not zero has been written, which bounds the number.
CellsToZero(mem, a) ==
    CHOOSE k \in 0..Cardinality(DOMAIN mem) :
        /\ Memory_read(mem, (a + k) % U16) = 0
        /\ \A j \in 0..(k - 1) : Memory_read(mem, (a + j) % U16) # 0

(* C30: PUTS writes, in increasing address order starting at the address in  *)
(* R0, the low byte of each memory cell up to but not including the first    *)
(* zero cell, and writes nothing else; on the cells 0x41, 0x42, 0x43, 0x00   *)
(* it writes exactly the bytes A, B, C.                                      *)
C30_PutsWritesLowBytes ==
    [][ (Executing /\ IsTrap(instruction, TRAP_PUTS) /\ phase' = "run") =>
            LET a == registers["R0"]
                n == CellsToZero(memory, a)
            IN  /\ writer' = writer \o
                        [j \in 1..n |-> Memory_read(memory, (a + j - 1) % U16) % 256]
                /\ program = ImageBytes(PutsProgram(<<65, 66, 67, 0>>)) =>
                        writer' = <<65, 66, 67>> ]_vars

C30_Witness ==
    /\ program = ImageBytes(PutsProgram(<<321, 256, 67, 0>>))
    /\ Executed /\ IsTrap(instruction, TRAP_PUTS)
    /\ writer = <<65, 0, 67>>

\* The bytes PUTSP is to write for n cells from address a on: for each cell
\* its high byte, then its low byte.
PackedBytes(mem, a, n) ==
    [j \in 1..(2 * n) |->
        LET cell == Memory_read(mem, (a + ((j - 1) \div 2)) % U16)
        IN  IF j % 2 = 1 THEN cell \div 256 ELSE cell % 256]

(* C31: PUTSP writes, for each memory cell from the address in R0 up to but  *)
(* not including the first cell whose value is zero, two bytes: the cell's   *)
(* high byte first, then its low byte (the cells 0x4142, 0x4344 produce the  *)
(* bytes 0x41, 0x42, 0x43, 0x44).                                            *)
C31_PutspWritesBytePairs ==
    [][ (Executing /\ IsTrap(instruction, TRAP_PUTSP) /\ phase' = "run") =>
            LET a == registers["R0"]
                n == CellsToZero(memory, a)
            IN  /\ writer' = writer \o PackedBytes(memory, a, n)
                /\ program = ImageBytes(PutspProgram(<<16706, 17220, 0>>)) =>
                        writer' = <<65, 66, 67, 68>> ]_vars

C31_Witness ==
    /\ program = ImageBytes(PutspProgram(<<65, 16640, 0>>))
    /\ Executed /\ IsTrap(instruction, TRAP_PUTSP)
    /\ writer = <<0, 65, 65, 0>>

(* C32: OUT writes exactly one byte, the low 8 bits of R0, for every 16-bit  *)
(* value of R0 (values above 0xFF included), and leaves R0 unchanged.        *)
C32_OutWritesLowByte ==
    [][ (Executing /\ IsTrap(instruction, TRAP_OUT) /\ phase' = "run") =>
            /\ writer' = Append(writer, registers["R0"] % 256)
            /\ registers'["R0"] = registers["R0"] ]_vars

C32_Witness ==
    /\ Executed /\ IsTrap(instruction, TRAP_OUT)
    /\ registers["R0"] = U16 - 2
    /\ writer = <<254>>

\* The number of decimal digits of a 16-bit value.
DigitCount(c) ==
    IF c < 10 THEN 1 ELSE IF c < 100 THEN 2 ELSE IF c < 1000 THEN 3
    ELSE IF c < 10000 THEN 4 ELSE 5

Pow10(n) == IF n = 0 THEN 1 ELSE IF n = 1 THEN 10 ELSE IF n = 2 THEN 100
            ELSE IF n = 3 THEN 1000 ELSE 10000

\* The ASCII decimal digits of c, most significant first, no leading zero.
DecimalDigits(c) ==
    [j \in 1..DigitCount(c) |-> 48 + ((c \div Pow10(DigitCount(c) - j)) % 10)]

(* C33: OUT-U16 writes exactly the ASCII decimal digits of the value in R0,  *)
(* most significant first, with no leading zeros, sign or terminator (255    *)
(* gives '2','5','5' and 0 gives '0'), and leaves R0 unchanged.              *)
C33_OutU16WritesDecimal ==
    [][ (Executing /\ IsTrap(instruction, TRAP_OUTU16) /\ phase' = "run") =>
            LET c == registers["R0"]
            IN  /\ writer' = writer \o DecimalDigits(c)
                /\ registers'["R0"] = c
                /\ c = 255 => writer' = writer \o <<50, 53, 53>>
                /\ c = 0 => writer' = writer \o <<48>> ]_vars

C33_Witness ==
    /\ program = ImageBytes(OutU16Program)
    /\ Executed /\ IsTrap(instruction, TRAP_OUTU16)
    /\ registers["R0"] = 255
    /\ writer = <<50, 53, 53>>

C33_WitnessZero ==
    /\ Executed /\ IsTrap(instruction, TRAP_OUTU16)
    /\ registers["R0"] = 0
    /\ writer = <<48>>

\* The instructions that set the condition flags.
FlagSetters == {"AddConst", "AddReg", "AndConst", "AndReg", "Not", "Ld", "Ldi", "Ldr", "Lea"}

\* The outcome of executing the current instruction had COND held f.
ExecutedWithCond(f) ==
    execute([VMState EXCEPT !.registers["Rcnd"] = f], InstructionFrom(instruction))

(* C34: COND is modified only by ADD, AND, NOT, LD, LDI, LDR and LEA, and is  *)
(* read only by BR: ST, STI, STR, BR, JMP, JSR, JSRR and every trap leave     *)
(* COND unchanged, and the outcome of every instruction other than BR is the  *)
(* same whatever COND holds.                                                  *)
C34_CondFrame ==
    [][ Executing =>
            /\ KindOfWord(instruction) \notin FlagSetters =>
                    registers'["Rcnd"] = registers["Rcnd"]
            /\ ~IsBr(instruction) =>
                    \A f \in {0, FL_POS, FL_ZRO, FL_NEG} :
                        LET alt == ExecutedWithCond(f)
                        IN  /\ alt.memory = memory'
                            /\ alt.halt = halt'
                            /\ alt.reader = reader'
                            /\ alt.writer = writer'
                            /\ alt.panicked = (phase' = "panic")
                            /\ alt.hung = (phase' = "hang")
                            /\ \A r \in GeneralReg \cup {"Rpc"} :
                                    alt.registers[r] = registers'[r] ]_vars

\* A store has executed while COND held the flag of an earlier result that
\* differs from the flag of the stored value.
C34_Witness ==
    /\ Executed /\ IsSti(instruction)
    /\ registers["Rcnd"] = FL_ZRO
    /\ registers[RegName(Field(instruction, 11, 9))] # 0

\* The instructions that set PC themselves: a taken BR, JMP, JSR, JSRR, HALT.
SetsPc(w, cond) ==
    \/ IsBr(w) /\ BrMaskMeets(w, cond)
    \/ IsJmp(w) \/ IsJsr(w) \/ IsJsrr(w)
    \/ IsTrap(w, TRAP_HALT)

(* C35: a full cycle that executes any instruction other than a taken BR,    *)
(* JMP, JSR, JSRR or HALT, fetched at address a, leaves PC = (a + 1) mod     *)
(* 2^16: ADD, AND, NOT, the loads, the stores, an untaken BR and the I/O     *)
(* traps advance PC by exactly one, never by zero or two.                    *)
C35_PcAdvancesByOne ==
    [][ (Executing /\ ~SetsPc(instruction, registers["Rcnd"]) /\ phase' = "run") =>
            registers'["Rpc"] = NextAddr(current_addr) ]_vars

\* The instruction in the last cell of memory has executed: PC is back at 0.
C35_Witness ==
    /\ Executed /\ IsLea(instruction)
    /\ current_addr = U16 - 1
    /\ registers["Rpc"] = 0

\* An I/O trap has executed and PC is one past it.
C35_WitnessTrap ==
    /\ Executed /\ IsTrap(instruction, TRAP_PUTS)
    /\ registers["Rpc"] = current_addr + 1
    /\ Len(writer) = 3

\* The traps that write to the console.
IsWritingTrap(w) ==
    \E vect \in {TRAP_OUT, TRAP_PUTS, TRAP_IN, TRAP_PUTSP, TRAP_OUTU16} : IsTrap(w, vect)

(* C36: after every trap that writes to the console (OUT, PUTS, IN, PUTSP,   *)
(* OUT-U16), all the bytes it wrote are flushed before the next instruction  *)
(* is fetched.  The traps of lib.rs never call flush(), so a byte other than *)
(* a newline stays in the buffer of the standard output and this statement   *)
(* of the claim is violated.                                                 *)
C36_OutputFlushedBeforeFetch ==
    (Executed /\ IsWritingTrap(instruction)) => flushed = Len(writer)

(* C37: a BR whose nzp mask is 0b111 is taken in every reachable state, also *)
(* as the first instruction executed after construction and load, and a BR   *)
(* whose mask is 0b000 is never taken.  Taken means that PC becomes the       *)
(* target Br::execute computes.  COND is 0 after construction, so the mask    *)
(* 0b111 meets no flag in a BR executed first and this statement of the       *)
(* claim is violated.                                                         *)
C37_UnconditionalBranch ==
    [][ (Executing /\ IsBr(instruction) /\ phase' = "run") =>
            /\ Field(instruction, 11, 9) = 7 =>
                    registers'["Rpc"] = (current_addr + Field(instruction, 8, 0)) % U16
            /\ Field(instruction, 11, 9) = 0 =>
                    registers'["Rpc"] = NextAddr(current_addr) ]_vars

(* C38: IN-U16 terminates on every finite input stream: when the reader is   *)
(* exhausted before a newline is seen it does not loop forever, and each     *)
(* byte consumed contributes at most one character to the digit accumulator. *)
(* The loop of TrapInu16 drops the result of read and ends only on a         *)
(* newline, so on a stream without one it never ends and this statement of   *)
(* the claim is violated.                                                    *)
C38_InU16Terminates ==
    IsTrap(instruction, TRAP_INU16) => phase # "hang"

(* C39: PUTS and PUTSP terminate whenever some memory cell is zero: they     *)
(* scan upward with 16-bit wrap-around rather than aborting at the top of    *)
(* memory, and neither modifies memory or R0.  Both compute `address + i`    *)
(* with the plain `+`, which aborts past 0xFFFF in a build with overflow      *)
(* checks, so this statement of the claim is violated.                        *)
C39_StringScanWraps ==
    [][ (/\ Executing
         /\ IsTrap(instruction, TRAP_PUTS) \/ IsTrap(instruction, TRAP_PUTSP)
         /\ \E a \in 0..(U16 - 1) : Memory_read(memory, a) = 0) =>
            /\ phase' = "run"
            /\ memory' = memory
            /\ registers'["R0"] = registers["R0"] ]_vars

\* The scan that started in the last cell has wrapped to cell 0 and returned.
C39_WrappedScan ==
    /\ program = ImageBytes(TopStringProgram(TRAP_PUTSP))
    /\ Executed /\ IsTrap(instruction, TRAP_PUTSP)
    /\ writer = <<255, 255>>

====
